---- MODULE Spec2Model ----
(***************************************************************************)
(* Substack2Markdown: the content-ingestion pipeline of                    *)
(* src/substack_scraper.py as a state machine.                             *)
(*                                                                         *)
(*   - URL resolution (BaseSubstackScraper.__init__ and                    *)
(*     _get_all_post_urls_and_feed_content): sitemap + feed -> post_urls   *)
(*   - the per-URL loop of scrape_posts, one action per iteration outcome  *)
(*   - dataset persistence (save_essays_data_to_json), the browsing page   *)
(*     (generate_html_file) and the call of the archive assembler          *)
(*                                                                         *)
(* Strings the code inspects (URLs, keywords, file names) are sequences of *)
(* one-character strings, so that "in", split and concatenation are        *)
(* computed as Python computes them.                                       *)
(***************************************************************************)
EXTENDS Naturals, Integers, Sequences, FiniteSets, TLC

VARIABLES
    \* ---- the network, as the publication serves it
    sitemap_response,       \* what GET <base>/sitemap.xml gives
    feed_response,          \* what GET <base>/feed gives
    \* ---- the scraper object
    premium,                \* TRUE: PremiumSubstackScraper, FALSE: SubstackScraper
    post_urls,              \* self.post_urls
    feed_item_contents,     \* self.feed_item_contents (dict, insertion ordered)
    \* ---- locals of _get_all_post_urls_and_feed_content, kept for inspection
    sitemap_urls,
    combined_urls,
    queried,                \* which of the two sources were asked
    \* ---- the disk
    md_files,               \* the markdown files that exist: set of [path, content]
    html_files,             \* the html files that exist: set of [path, content]
    json_file,              \* data/<writer>.json: [exists, data]
    browse_page,            \* substack_html_pages/<writer>.html: [exists, data]
    epub_file,              \* <writer>_substack_archive.epub: [exists, chapters, toc, spine]
    \* ---- scrape_posts
    pc,                     \* where the program is
    num_posts_to_scrape,
    idx,                    \* position of the for loop in post_urls (next to visit)
    essays_data,
    count,
    processed_urls_count,
    epub_calls,             \* calls of create_epub_from_author_markdown in this run
    \* ---- observation (not program state)
    has_run,                \* scrape_posts has returned at least once
    fetched,                \* this run: URL -> number of transport page fetches
    visited,                \* this run: loop positions whose body was entered
    failed,                 \* this run: loop positions whose body ended in a failure
    unsaved_prev,           \* URLs the previous run processed without writing markdown
    unsaved_urls,           \* URLs this run processed without writing markdown
    pages_stable,           \* this run wrote markdown for no URL of unsaved_prev
    prev_cap,               \* the cap of the previous run
    snapshot,               \* the disk when this run started; whether a run came before, and its cap
    slept,                  \* this run: URL -> number of sleep(DELAY_LENGTH) calls in its iterations
    \* ---- configuration and environment
    DELAY_LENGTH,           \* the name in config.py: [defined, value]
    login_outcome,          \* what the sign-in page does with the credentials
    paused,                 \* the body has slept and is about to call get_url_soup
    \* ---- a function called on its own
    argument,
    returned

vars == << sitemap_response, feed_response, premium, post_urls, feed_item_contents,
           sitemap_urls, combined_urls, queried, md_files, html_files, json_file,
           browse_page, epub_file, pc, num_posts_to_scrape, idx, essays_data, count,
           processed_urls_count, epub_calls, has_run, fetched, visited, failed,
           unsaved_prev, unsaved_urls, pages_stable, prev_cap, snapshot, slept,
           DELAY_LENGTH, login_outcome, paused, argument, returned >>

-----------------------------------------------------------------------------
(* Bounds of the model                                                     *)

MaxSitemap == 2     \* most <loc> elements in a sitemap, when only resolution is explored
MaxFeed == 2        \* most <item> elements in a feed, when only resolution is explored
MaxListed == 2      \* most <loc> and <item> elements together, when runs are explored
MaxCap == 1         \* largest post-count cap tried
MaxPosts == 3       \* most records of a dataset, when the archive assembler is explored

-----------------------------------------------------------------------------
(* Python string and list operations                                       *)

Range(s) == { s[i] : i \in 1..Len(s) }

\* Python "sub in s" for strings: sub occurs as a contiguous slice of s
StrIn(sub, s) ==
    \E i \in 0..(Len(s) - Len(sub)) :
        \A j \in 1..Len(sub) : s[i + j] = sub[j]

\* Python "x in lst" for lists
ListIn(x, lst) == \E i \in 1..Len(lst) : lst[i] = x

\* position after the last "/" of s (1 when there is none)
LastSegmentStart(s) ==
    LET slashes == { i \in 1..Len(s) : s[i] = "/" }
    IN  IF slashes = {} THEN 1
        ELSE 1 + CHOOSE i \in slashes : \A j \in slashes : j <= i

\* s.split("/")[-1]
SplitLast(s) == SubSeq(s, LastSegmentStart(s), Len(s))

IsPrefix(s, t) == Len(s) <= Len(t) /\ SubSeq(t, 1, Len(s)) = s

\* str.find(sub, start): the first position at or after start where sub
\* begins, 0 when there is none (positions count from 1)
Find(str, sub, start) ==
    LET hits == { i \in start..(Len(str) - Len(sub) + 1) : SubSeq(str, i, i + Len(sub) - 1) = sub }
    IN  IF hits = {} THEN 0 ELSE CHOOSE i \in hits : \A j \in hits : i <= j

Whitespace == { " ", "\n" }

\* str.lstrip(), str.rstrip() and str.strip()
RECURSIVE Lstrip(_)
Lstrip(str) ==
    IF str # << >> /\ Head(str) \in Whitespace THEN Lstrip(Tail(str)) ELSE str
RECURSIVE Rstrip(_)
Rstrip(str) ==
    IF str # << >> /\ str[Len(str)] \in Whitespace
    THEN Rstrip(SubSeq(str, 1, Len(str) - 1)) ELSE str
Strip(str) == Rstrip(Lstrip(str))

\* str.replace(old, new): every occurrence, left to right
RECURSIVE Replace(_, _, _)
Replace(str, old, new) ==
    IF Len(str) < Len(old) THEN str
    ELSE IF IsPrefix(old, str)
         THEN new \o Replace(SubSeq(str, Len(old) + 1, Len(str)), old, new)
         ELSE << Head(str) >> \o Replace(Tail(str), old, new)

\* str.split(): the runs of characters between whitespace
RECURSIVE Split(_)
Split(str) ==
    LET rest == Lstrip(str)
        n == CHOOSE n \in 1..Len(rest) :
                /\ \A i \in 1..n : rest[i] \notin Whitespace
                /\ n = Len(rest) \/ rest[n + 1] \in Whitespace
    IN  IF rest = << >> THEN << >>
        ELSE << SubSeq(rest, 1, n) >> \o Split(SubSeq(rest, n + 1, Len(rest)))

\* str.split(sep)[-1]
RECURSIVE SplitLastOn(_, _)
SplitLastOn(str, sep) ==
    IF Find(str, sep, 1) = 0 THEN str
    ELSE SplitLastOn(SubSeq(str, Find(str, sep, 1) + Len(sep), Len(str)), sep)

\* the characters of the strings below, by code point
CodePoints ==
    << "\n", " ", "#", "(", ")", "*", ",", "-", ".", "/",
       "0", "1", "2", "3", "4", "5", "6", "7", "8", "9", ":", "<", ">", "?",
       "A", "B", "C", "D", "E", "F", "G", "H", "I", "J", "K", "L", "M", "N", "O", "P", "Q", "R",
       "S", "T", "U", "V", "W", "X", "Y", "Z", "_",
       "a", "b", "c", "d", "e", "f", "g", "h", "i", "j", "k", "l", "m", "n", "o", "p", "q", "r",
       "s", "t", "u", "v", "w", "x", "y", "z" >>
Ord(char) == CHOOSE i \in 1..Len(CodePoints) : CodePoints[i] = char

\* a < b for strings
StrLess(a, b) ==
    \E k \in 0..Len(a) :
        /\ k <= Len(b)
        /\ SubSeq(a, 1, k) = SubSeq(b, 1, k)
        /\ \/ k = Len(a) /\ k < Len(b)
           \/ k < Len(a) /\ k < Len(b) /\ Ord(a[k + 1]) < Ord(b[k + 1])

-----------------------------------------------------------------------------
(* The URLs a publication may list, and feed snippets                      *)

U_ax == << "a", "/", "x" >>
U_bx == << "b", "/", "x" >>
U_ay == << "a", "/", "y" >>
U_archive == << "a", "/", "a", "r", "c", "h", "i", "v", "e" >>
U_about == << "a", "/", "a", "b", "o", "u", "t", "-", "u", "s" >>
U_podcast == << "p", "o", "d", "c", "a", "s", "t", "/", "x" >>

\* element.text of a <loc> element without text: None
NoneLoc == << "None" >>

\* the URLs of the publications explored with runs, and with resolution alone
Urls == { U_ax, U_bx, U_ay, U_archive }
AllUrls == Urls \cup { U_about, U_podcast }

\* A feed <content:encoded> text is the sequence of its elements: runs of
\* text, anchors and <meta> elements
TextNode(chars) ==
    [ tag |-> "#text", class |-> "", href |-> << >>, property |-> "", content |-> << >>,
      text |-> chars ]
Anchor(class, href, chars) ==
    [ tag |-> "a", class |-> class, href |-> href, property |-> "", content |-> << >>,
      text |-> chars ]
Meta(property, content) ==
    [ tag |-> "meta", class |-> "", href |-> << >>, property |-> property,
      content |-> content, text |-> << >> ]

HelloWorld ==
    << "H", "e", "l", "l", "o", " ", "w", "o", "r", "l", "d" >>
ForPaidSubscribers ==
    << "T", "h", "i", "s", " ", "p", "o", "s", "t", " ", "i", "s", " ", "f", "o", "r", " ",
       "p", "a", "i", "d", " ", "s", "u", "b", "s", "c", "r", "i", "b", "e", "r", "s" >>

SnipFree == << TextNode(HelloWorld) >>
SnipPaid == << TextNode(ForPaidSubscribers) >>
Snippets == { SnipFree, SnipPaid }

EmptyStr == << >>           \* the string ""

\* An <item>: link is "" when <link> is absent or empty, content is "" when
\* <content:encoded> is absent
FeedItems(links, contents) ==
    [ link : links, content : contents ] \cup { [ link |-> EmptyStr, content |-> EmptyStr ] }

RECURSIVE SeqsUpTo(_, _)
SeqsUpTo(S, n) ==
    IF n = 0 THEN { << >> }
    ELSE LET shorter == SeqsUpTo(S, n - 1)
         IN  shorter \cup { Append(s, x) : s \in { t \in shorter : Len(t) = n - 1 }, x \in S }

\* the answers to GET sitemap.xml with at most n <loc> elements: a document, a
\* network error (requests.exceptions.RequestException) or malformed XML
\* (ET.ParseError)
SitemapResponses(links, n) ==
    { [ kind |-> "ok", locs |-> l ] : l \in SeqsUpTo(links, n) }
    \cup { [ kind |-> k, locs |-> << >> ] : k \in { "request_error", "parse_error" } }

\* the answers to GET feed with at most n <item> elements
FeedResponses(items, n) ==
    { [ kind |-> "ok", items |-> l ] : l \in SeqsUpTo(items, n) }
    \cup { [ kind |-> k, items |-> << >> ] : k \in { "request_error", "parse_error" } }

\* a response that has been read
ConsumedSitemap == [ kind |-> "consumed", locs |-> << >> ]
ConsumedFeed == [ kind |-> "consumed", items |-> << >> ]

-----------------------------------------------------------------------------
(* Dictionaries (insertion ordered, as Python's): sequences of             *)
(* [key, value] with distinct keys                                         *)

DictHas(d, k) == \E i \in 1..Len(d) : d[i].key = k

DictGet(d, k) == LET i == CHOOSE i \in 1..Len(d) : d[i].key = k IN d[i].value

\* d[k] = v
DictPut(d, k, v) ==
    IF DictHas(d, k)
    THEN [ i \in 1..Len(d) |-> IF d[i].key = k THEN [ key |-> k, value |-> v ] ELSE d[i] ]
    ELSE Append(d, [ key |-> k, value |-> v ])

\* list(d.keys())
DictKeys(d) == [ i \in 1..Len(d) |-> d[i].key ]

-----------------------------------------------------------------------------
(* URL resolution                                                          *)

\* self.keywords
keywords == << << "a", "b", "o", "u", "t" >>,
               << "a", "r", "c", "h", "i", "v", "e" >>,
               << "p", "o", "d", "c", "a", "s", "t" >> >>

\* "keyword not in url" raises TypeError when url is None
filter_urls_raises(urls, kws) == kws # << >> /\ ListIn(NoneLoc, urls)

\* [url for url in urls if all(keyword not in url for keyword in keywords)]
filter_urls(urls, kws) ==
    SelectSeq(urls, LAMBDA url : \A k \in 1..Len(kws) : ~StrIn(kws[k], url))

\* A faulty variant: the handler for ET.ParseError is missing
fetch_urls_from_sitemap_Unhandled(response) ==
    IF response.kind = "ok" THEN [ raised |-> FALSE, value |-> response.locs ]
    ELSE IF response.kind = "parse_error" THEN [ raised |-> TRUE, value |-> << >> ]
    ELSE [ raised |-> FALSE, value |-> << >> ]

\* The list the sitemap gives; both handled exceptions give []. "raised" says
\* an exception left the function.
fetch_urls_from_sitemap(response) ==
    IF response.kind = "ok"
    THEN [ raised |-> FALSE, value |-> response.locs ]
    ELSE [ raised |-> FALSE, value |-> << >> ]

\* the for loop over root.findall('.//item')
RECURSIVE FeedLoop(_, _)
FeedLoop(items, urls_and_content) ==
    IF items = << >> THEN urls_and_content
    ELSE LET item == Head(items)
         IN  FeedLoop(Tail(items),
                      IF item.link # EmptyStr
                      THEN DictPut(urls_and_content, item.link, item.content)
                      ELSE urls_and_content)

\* The dict the feed gives; both handled exceptions leave it empty.
fetch_urls_and_content_from_feed(response) ==
    IF response.kind = "ok"
    THEN [ raised |-> FALSE, value |-> FeedLoop(response.items, << >>) ]
    ELSE [ raised |-> FALSE, value |-> << >> ]

\* for url in feed_urls_and_content.keys(): if url not in combined_urls: append
RECURSIVE AppendNovel(_, _)
AppendNovel(combined, feed_keys) ==
    IF feed_keys = << >> THEN combined
    ELSE AppendNovel(IF ListIn(Head(feed_keys), combined) THEN combined
                     ELSE Append(combined, Head(feed_keys)),
                     Tail(feed_keys))

\* A faulty variant: the feed's URLs are appended without the membership test
CombineUrls_AppendAll(s_urls, feed_dict) == s_urls \o DictKeys(feed_dict)

\* combined_urls on the sitemap-first path
CombineUrls(s_urls, feed_dict) == AppendNovel(s_urls, DictKeys(feed_dict))

\* A faulty variant: the feed-fallback path returns the feed's URLs unfiltered
ResolveUrls_FallbackUnfiltered(s_urls, feed_dict) ==
    IF s_urls # << >> THEN filter_urls(AppendNovel(s_urls, DictKeys(feed_dict)), keywords)
    ELSE IF feed_dict # << >> THEN DictKeys(feed_dict)
    ELSE << >>

\* filter_urls raises in _get_all_post_urls_and_feed_content: the feed's keys
\* are never None (line 234), the sitemap's elements may be
ResolveRaises(s_urls, feed_dict) ==
    s_urls # << >> /\ filter_urls_raises(AppendNovel(s_urls, DictKeys(feed_dict)), keywords)

\* the value _get_all_post_urls_and_feed_content returns
ResolveUrls(s_urls, feed_dict) ==
    IF s_urls # << >> THEN filter_urls(CombineUrls(s_urls, feed_dict), keywords)
    ELSE IF feed_dict # << >> THEN filter_urls(DictKeys(feed_dict), keywords)
    ELSE << >>

-----------------------------------------------------------------------------
(* Pages, extraction and files                                             *)

\* element is None: the selector does not find the element
Absent == << "<absent>" >>

Post == << "P", "o", "s", "t" >>
Sub == << "S", "u", "b" >>
Jan1 == << "J", "a", "n", " ", "1", ",", " ", "2", "0", "2", "3" >>
Twelve == << "1", "2" >>
Body == << "b", "o", "d", "y" >>

\* What BeautifulSoup makes of a post page: the text of the elements the
\* code selects
SoupFull == [ paywall_title |-> FALSE, title |-> Post, subtitle |-> Sub,
              date_text |-> Jan1, likes_label |-> Twelve, content |-> Body ]
SoupPaywall == [ paywall_title |-> TRUE, title |-> Post, subtitle |-> Absent,
                 date_text |-> Absent, likes_label |-> Absent, content |-> Absent ]
SoupBare == [ paywall_title |-> FALSE, title |-> Absent, subtitle |-> Absent,
              date_text |-> Absent, likes_label |-> Absent, content |-> Absent ]
Soups == { SoupFull, SoupPaywall, SoupBare }

\* What the transport gives for a URL: an error, or a page. The logged-in
\* browser session is served the full post; the plain request may also get a
\* paywalled page or a page without a post.
ErrorPage == [ error |-> TRUE, soup |-> SoupBare ]
PagesFor(is_premium) ==
    IF is_premium THEN { ErrorPage, [ error |-> FALSE, soup |-> SoupFull ] }
    ELSE { ErrorPage } \cup { [ error |-> FALSE, soup |-> s ] : s \in Soups }

None == [ none |-> TRUE, raised |-> FALSE, soup |-> SoupBare ]
Raised == [ none |-> FALSE, raised |-> TRUE, soup |-> SoupBare ]
Some(soup) == [ none |-> FALSE, raised |-> FALSE, soup |-> soup ]

UpperLetters == << "A", "B", "C", "D", "E", "F", "G", "H", "I", "J", "K", "L", "M", "N", "O",
                   "P", "Q", "R", "S", "T", "U", "V", "W", "X", "Y", "Z" >>
LowerLetters == << "a", "b", "c", "d", "e", "f", "g", "h", "i", "j", "k", "l", "m", "n", "o",
                   "p", "q", "r", "s", "t", "u", "v", "w", "x", "y", "z" >>

\* A faulty variant: the letters keep their case
Lower_AsIs(char) == char

\* str.lower() of one character
Lower(char) ==
    IF \E i \in 1..Len(UpperLetters) : UpperLetters[i] = char
    THEN LowerLetters[CHOOSE i \in 1..Len(UpperLetters) : UpperLetters[i] = char]
    ELSE char

\* text.lower()
LowerAll(text) == [ i \in 1..Len(text) |-> Lower(text[i]) ]

\* lines 736-741
paid_subscriber_texts ==
    { << "t", "h", "i", "s", " ", "p", "o", "s", "t", " ", "i", "s", " ", "f", "o", "r", " ",
         "p", "a", "i", "d", " ", "s", "u", "b", "s", "c", "r", "i", "b", "e", "r", "s" >>,
      << "t", "o", " ", "r", "e", "a", "d", " ", "t", "h", "e", " ", "f", "u", "l", "l", " ",
         "p", "o", "s", "t", ",", " ", "s", "u", "b", "s", "c", "r", "i", "b", "e" >>,
      << "t", "h", "i", "s", " ", "i", "s", " ", "a", " ", "p", "r", "e", "v", "i", "e", "w",
         " ", "o", "f", " ", "a", " ", "p", "a", "i", "d", " ", "p", "o", "s", "t" >>,
      << "u", "p", "g", "r", "a", "d", "e", " ", "t", "o", " ", "p", "a", "i", "d" >> }

\* text.lower() for text in paid_subscriber_texts
LoweredTexts == { LowerAll(text) : text \in paid_subscriber_texts }

SubscribeQuery == << "s", "u", "b", "s", "c", "r", "i", "b", "e", "?" >>
Subscribe == << "s", "u", "b", "s", "c", "r", "i", "b", "e" >>
OnlyForSubscribers ==
    << "o", "n", "l", "y", " ", "f", "o", "r", " ", "s", "u", "b", "s", "c", "r", "i", "b",
       "e", "r", "s" >>
PaidPost == << "p", "a", "i", "d", " ", "p", "o", "s", "t" >>

\* feed_soup.get_text(): the text of the elements, one after the other
RECURSIVE get_text(_)
get_text(soup) ==
    IF soup = << >> THEN << >> ELSE Head(soup).text \o get_text(Tail(soup))

\* feed_soup.find(...): the first element that matches
FindElement(soup, Matches(_)) ==
    SelectSeq(soup, Matches)

\* SubstackScraper.is_article_premium_from_feed, on self.feed_item_contents
is_article_premium_from_feed(contents, url) ==
    /\ DictHas(contents, url)
    /\ DictGet(contents, url) # EmptyStr
    /\ \E feed_soup \in { DictGet(contents, url) } :
         \/ \E plain_text \in { LowerAll(get_text(feed_soup)) } :
                \E text \in LoweredTexts : StrIn(text, plain_text)
         \/ \E subscribe_button \in
                   { FindElement(feed_soup, LAMBDA e : /\ e.tag = "a"
                                                       /\ e.class = "button"
                                                       /\ e.href # << >>
                                                       /\ StrIn(SubscribeQuery, e.href)) },
               description_element \in
                   { FindElement(feed_soup,
                                 LAMBDA e : e.tag = "meta" /\ e.property = "og:description") } :
                /\ subscribe_button # << >>
                /\ \E button_text \in { LowerAll(subscribe_button[1].text) } :
                       StrIn(Subscribe, button_text)
                /\ \E description_text \in
                          { IF /\ description_element # << >>
                               /\ description_element[1].content # << >>
                            THEN LowerAll(description_element[1].content)
                            ELSE << >> } :
                       \/ StrIn(OnlyForSubscribers, description_text)
                       \/ StrIn(PaidPost, description_text)

\* SubstackScraper.get_url_soup
get_url_soup_plain(contents, url, page) ==
    IF is_article_premium_from_feed(contents, url) THEN None
    ELSE IF page.error THEN None
    ELSE IF page.soup.paywall_title THEN None
    ELSE IF page.soup.title = Absent /\ page.soup.content = Absent THEN None
    ELSE Some(page.soup)

\* PremiumSubstackScraper.get_url_soup
get_url_soup_premium(url, page) ==
    IF page.error THEN Raised ELSE Some(page.soup)

get_url_soup(is_premium, contents, url, page) ==
    IF is_premium THEN get_url_soup_premium(url, page)
    ELSE get_url_soup_plain(contents, url, page)

-----------------------------------------------------------------------------
(* Dates                                                                   *)

Digits == << "0", "1", "2", "3", "4", "5", "6", "7", "8", "9" >>
IsDigit(char) == \E i \in 1..Len(Digits) : Digits[i] = char
DigitValue(char) == (CHOOSE i \in 1..Len(Digits) : Digits[i] = char) - 1

\* A faulty variant: any text counts as a number
isdigit_Always(str) == TRUE

\* str.isdigit()
isdigit(str) == str # << >> /\ \A i \in 1..Len(str) : IsDigit(str[i])

\* int(str) of a string of digits
RECURSIVE ParseInt(_)
ParseInt(str) ==
    IF str = << >> THEN 0
    ELSE 10 * ParseInt(SubSeq(str, 1, Len(str) - 1)) + DigitValue(str[Len(str)])

IsSpaces(str) == \A i \in 1..Len(str) : str[i] \in Whitespace

\* the keys of month_abbr_map, in the order of their values "01".."12"
month_abbr_map ==
    << << "J", "a", "n" >>, << "F", "e", "b" >>, << "M", "a", "r" >>, << "A", "p", "r" >>,
       << "M", "a", "y" >>, << "J", "u", "n" >>, << "J", "u", "l" >>, << "A", "u", "g" >>,
       << "S", "e", "p" >>, << "O", "c", "t" >>, << "N", "o", "v" >>, << "D", "e", "c" >> >>

\* the number of the month with this abbreviation, 0 when there is none
MonthNumber(str) ==
    IF \E i \in 1..Len(month_abbr_map) : month_abbr_map[i] = str
    THEN CHOOSE i \in 1..Len(month_abbr_map) : month_abbr_map[i] = str
    ELSE 0

\* the same for %b of strptime, which ignores the case of the letters
MonthNumberAnyCase(str) ==
    IF \E i \in 1..Len(month_abbr_map) : LowerAll(month_abbr_map[i]) = LowerAll(str)
    THEN CHOOSE i \in 1..Len(month_abbr_map) : LowerAll(month_abbr_map[i]) = LowerAll(str)
    ELSE 0

IsLeapYear(year) == (year % 4 = 0 /\ year % 100 # 0) \/ year % 400 = 0
DaysInMonth(month, year) ==
    IF month = 2 THEN (IF IsLeapYear(year) THEN 29 ELSE 28)
    ELSE IF month \in { 4, 6, 9, 11 } THEN 30 ELSE 31

\* a datetime, or the ValueError of strptime
NoDate == [ ok |-> FALSE, year |-> 0, month |-> 0, day |-> 0 ]
MakeDate(year, month, day) ==
    IF year >= 1 /\ month \in 1..12 /\ day >= 1 /\ day <= DaysInMonth(month, year)
    THEN [ ok |-> TRUE, year |-> year, month |-> month, day |-> day ]
    ELSE NoDate

\* datetime.strptime(str, "%b %d, %Y"): an abbreviation, whitespace, one or
\* two digits, a comma, whitespace, four digits
strptime_b_d_Y(str) ==
    LET shapes == { shape \in (1..Len(str)) \X (1..2) \X (1..Len(str)) :
                      LET w1 == shape[1]
                          dl == shape[2]
                          w2 == shape[3]
                      IN  /\ Len(str) = 3 + w1 + dl + 1 + w2 + 4
                          /\ MonthNumberAnyCase(SubSeq(str, 1, 3)) # 0
                          /\ IsSpaces(SubSeq(str, 4, 3 + w1))
                          /\ isdigit(SubSeq(str, 4 + w1, 3 + w1 + dl))
                          /\ str[4 + w1 + dl] = ","
                          /\ IsSpaces(SubSeq(str, 5 + w1 + dl, 4 + w1 + dl + w2))
                          /\ isdigit(SubSeq(str, Len(str) - 3, Len(str))) }
    IN  IF shapes = {} THEN NoDate
        ELSE LET shape == CHOOSE shape \in shapes : TRUE
             IN  MakeDate(ParseInt(SubSeq(str, Len(str) - 3, Len(str))),
                          MonthNumberAnyCase(SubSeq(str, 1, 3)),
                          ParseInt(SubSeq(str, 4 + shape[1], 3 + shape[1] + shape[2])))

\* datetime.strptime(f"{month_num} {day_str} {year_str}", "%m %d %Y") for
\* strings of digits day_str and year_str
strptime_m_d_Y(month_num, day_str, year_str) ==
    IF Len(day_str) <= 2 /\ Len(year_str) = 4
    THEN MakeDate(ParseInt(year_str), month_num, ParseInt(day_str))
    ELSE NoDate

\* datetime.strptime(str, "%Y-%m-%d"): four digits, then one or two digits
\* twice, with "-" between
strptime_Y_m_d(str) ==
    LET shapes == { shape \in (1..2) \X (1..2) :
                      /\ Len(str) = 4 + 1 + shape[1] + 1 + shape[2]
                      /\ isdigit(SubSeq(str, 1, 4))
                      /\ str[5] = "-"
                      /\ isdigit(SubSeq(str, 6, 5 + shape[1]))
                      /\ str[6 + shape[1]] = "-"
                      /\ isdigit(SubSeq(str, 7 + shape[1], Len(str))) }
    IN  IF shapes = {} THEN NoDate
        ELSE LET shape == CHOOSE shape \in shapes : TRUE
             IN  MakeDate(ParseInt(SubSeq(str, 1, 4)),
                          ParseInt(SubSeq(str, 6, 5 + shape[1])),
                          ParseInt(SubSeq(str, 7 + shape[1], Len(str))))

TwoDigits(n) == << Digits[((n \div 10) % 10) + 1], Digits[(n % 10) + 1] >>
FourDigits(n) == TwoDigits(n \div 100) \o TwoDigits(n % 100)

\* dt.strftime("%Y-%m-%d")
strftime_Y_m_d(dt) ==
    FourDigits(dt.year) \o << "-" >> \o TwoDigits(dt.month) \o << "-" >> \o TwoDigits(dt.day)

DateNotFound == << "D", "a", "t", "e", " ", "n", "o", "t", " ", "f", "o", "u", "n", "d" >>
UnknownDate == << "U", "n", "k", "n", "o", "w", "n", " ", "D", "a", "t", "e" >>

\* lines 46-48: the replacements, in the order they are made
UnitSpellings ==
    << [ old |-> << " ", "h", "o", "u", "r", "s" >>, new |-> << " ", "h", "r" >> ],
       [ old |-> << " ", "h", "o", "u", "r" >>, new |-> << " ", "h", "r" >> ],
       [ old |-> << " ", "d", "a", "y", "s" >>, new |-> << " ", "d", "a", "y" >> ],
       [ old |-> << " ", "d", "a", "y" >>, new |-> << " ", "d", "a", "y" >> ],
       [ old |-> << " ", "m", "i", "n", "u", "t", "e", "s" >>, new |-> << " ", "m", "i", "n" >> ],
       [ old |-> << " ", "m", "i", "n", "u", "t", "e" >>, new |-> << " ", "m", "i", "n" >> ] >>

\* line 82
RecencyMarkers == { << "a", "g", "o" >>, << "h", "r" >>, << "m", "i", "n" >> }

\* lines 46-48: the spellings of the units are shortened
RECURSIVE ReplaceEach(_, _)
ReplaceEach(date_str, spellings) ==
    IF spellings = << >> THEN date_str
    ELSE ReplaceEach(Replace(date_str, Head(spellings).old, Head(spellings).new),
                     Tail(spellings))
NormaliseUnits(date_str) == ReplaceEach(date_str, UnitSpellings)

\* lines 61-78: month, day and year as three words, commas dropped
ManualMonthDayYear(date_str) ==
    LET parts == Split(Replace(date_str, << "," >>, << >>))
    IN  IF /\ Len(parts) = 3
           /\ MonthNumber(parts[1]) # 0
           /\ isdigit(parts[2])
           /\ isdigit(parts[3])
        THEN strptime_m_d_Y(MonthNumber(parts[1]), parts[2], parts[3])
        ELSE NoDate

\* format_substack_date(date_str), called when datetime.now() is now
format_substack_date(date_str, now) ==
    IF date_str = DateNotFound THEN UnknownDate
    ELSE LET normalised == NormaliseUnits(Strip(date_str))
             month_day_year == strptime_b_d_Y(normalised)
             manual == ManualMonthDayYear(normalised)
             month_day == strptime_b_d_Y(normalised \o << ",", " " >> \o FourDigits(now.year))
             canonical == strptime_Y_m_d(normalised)
         IN  IF month_day_year.ok THEN strftime_Y_m_d(month_day_year)
             ELSE IF manual.ok THEN strftime_Y_m_d(manual)
             ELSE IF \E marker \in RecencyMarkers : StrIn(marker, normalised)
                  THEN strftime_Y_m_d(now)
             ELSE IF month_day.ok THEN strftime_Y_m_d(month_day)
             ELSE IF canonical.ok THEN strftime_Y_m_d(canonical)
             ELSE normalised

\* datetime.now() at the calls explored
Nows == { [ ok |-> TRUE, year |-> 2026, month |-> 11, day |-> 1 ],
          [ ok |-> TRUE, year |-> 2024, month |-> 2, day |-> 29 ],
          [ ok |-> TRUE, year |-> 2025, month |-> 12, day |-> 31 ] }

-----------------------------------------------------------------------------
(* Extraction                                                              *)

TitleNotFound == << "T", "i", "t", "l", "e", " ", "n", "o", "t", " ", "f", "o", "u", "n", "d" >>
ContentNotFound == << "C", "o", "n", "t", "e", "n", "t", " ", "n", "o", "t", " ", "f", "o", "u", "n", "d" >>
Zero == << "0" >>
Dash == << " ", "-", " " >>
Newlines == << "\n", "\n" >>
metadata_marker == << "*", "*", "L", "i", "k", "e", "s", ":", "*", "*" >>

\* combine_metadata_and_content
combine_metadata_and_content(title, subtitle, date, like_count, content) ==
    << "#", " " >> \o title \o Newlines
    \o (IF subtitle # << >> THEN << "#", "#", " " >> \o subtitle \o Newlines ELSE << >>)
    \o << "*", "*" >> \o date \o << "*", "*" >> \o Newlines
    \o metadata_marker \o << " " >> \o like_count \o Newlines
    \o content

\* str(content_element): the element with its tags
Html(chars) == << "<", "p", ">" >> \o chars \o << "<", "/", "p", ">" >>

\* html_to_md, on one element: its text as a paragraph
html_to_md(html_content) == SubSeq(html_content, 4, Len(html_content) - 4) \o Newlines

\* extract_post_data: (title, subtitle, like_count, date, md)
extract_post_data(soup, now) ==
    LET title == IF soup.title # Absent THEN Strip(soup.title) ELSE TitleNotFound
        subtitle == IF soup.subtitle # Absent THEN Strip(soup.subtitle) ELSE << >>
        raw_date_full == IF soup.date_text # Absent THEN Strip(soup.date_text) ELSE DateNotFound
        raw_date_isolated == IF StrIn(Dash, raw_date_full)
                             THEN SplitLastOn(raw_date_full, Dash)
                             ELSE raw_date_full
        date == format_substack_date(raw_date_isolated, now)
        like_count == IF soup.likes_label # Absent /\ isdigit(Strip(soup.likes_label))
                      THEN Strip(soup.likes_label) ELSE Zero
        content_html == IF soup.content # Absent THEN Html(soup.content)
                        ELSE Html(ContentNotFound)
        md == html_to_md(content_html)
    IN  [ title |-> title, subtitle |-> subtitle, like_count |-> like_count, date |-> date,
          md |-> combine_metadata_and_content(title, subtitle, date, like_count, md) ]

md_save_dir == << "m" >>
html_save_dir == << "h" >>
DotMd == << ".", "m", "d" >>
DotHtml == << ".", "h", "t", "m", "l" >>

\* os.path.join(dir, name)
PathJoin(dir, name) == dir \o << "/" >> \o name

\* get_filename_from_url
get_filename_from_url(url, filetype) == SplitLast(url) \o filetype

md_filepath(url) == PathJoin(md_save_dir, get_filename_from_url(url, DotMd))
html_filepath(url) == PathJoin(html_save_dir, get_filename_from_url(url, DotHtml))

\* os.path.exists(path), on a set of files
Exists(files, path) == \E f \in files : f.path = path

\* save_to_file: an existing file is left as it is
save_to_file(files, filepath, content) ==
    IF Exists(files, filepath) THEN files
    ELSE files \cup { [ path |-> filepath, content |-> content ] }

\* save_to_html_file: open(filepath, 'w') replaces an existing file
save_to_html_file(files, filepath, content) ==
    { f \in files : f.path # filepath }
    \cup { [ path |-> filepath, content |-> << "<main>", content >> ] }

\* the record scrape_posts appends to essays_data
PostRecord(url, data) ==
    [ title |-> data.title, subtitle |-> data.subtitle, like_count |-> data.like_count,
      date |-> data.date, file_link |-> md_filepath(url), html_link |-> html_filepath(url) ]

\* A faulty variant: the file is written with this run's records alone
MergedEssays_Overwrite(file, new_data) == new_data

\* A faulty variant: this run's records are put before the existing ones
MergedEssays_NewFirst(file, new_data) ==
    IF file.exists
    THEN SelectSeq(new_data, LAMBDA data : ~ListIn(data, file.data)) \o file.data
    ELSE new_data

\* save_essays_data_to_json: the list written to the file
MergedEssays(file, new_data) ==
    IF file.exists
    THEN file.data \o SelectSeq(new_data, LAMBDA data : ~ListIn(data, file.data))
    ELSE new_data

-----------------------------------------------------------------------------
(* The archive assembler                                                   *)

\* A faulty variant: the title is compared before the date
KeyLess_TitleFirst(a, b) ==
    \/ StrLess(a.title, b.title)
    \/ a.title = b.title /\ StrLess(a.date, b.date)

\* (x['date'], x.get('title', '')) of a precedes that of b
KeyLess(a, b) ==
    \/ StrLess(a.date, b.date)
    \/ a.date = b.date /\ StrLess(a.title, b.title)

\* A faulty variant: the date is not parsed, an echoed string passes
IsValidPost_Unparsed(post) ==
    /\ post.date # << >>
    /\ post.date # UnknownDate
    /\ post.date # DateNotFound

\* lines 452-463: the records with a date that is present, not a sentinel, and parses
IsValidPost(post) ==
    /\ post.date # << >>
    /\ post.date # UnknownDate
    /\ post.date # DateNotFound
    /\ strptime_Y_m_d(post.date).ok

\* sorted(valid_posts, key=...): stable, ascending
RECURSIVE InsertSorted(_, _)
InsertSorted(sorted, post) ==
    IF sorted = << >> THEN << post >>
    ELSE IF KeyLess(post, sorted[Len(sorted)])
         THEN Append(InsertSorted(SubSeq(sorted, 1, Len(sorted) - 1), post),
                     sorted[Len(sorted)])
         ELSE Append(sorted, post)

RECURSIVE SortPosts(_)
SortPosts(posts) ==
    IF posts = << >> THEN << >>
    ELSE CHOOSE result \in
             { InsertSorted(sorted, posts[Len(posts)]) :
                 sorted \in { SortPosts(SubSeq(posts, 1, Len(posts) - 1)) } } : TRUE

\* lines 581-595: the label of a chapter in the table of contents
TocTitle(post) ==
    IF post.date = UnknownDate \/ post.date = DateNotFound
    THEN post.title
    ELSE post.title \o << " ", "(" >> \o post.date \o << ")" >>

\* lines 525-547: the markdown of a chapter, the file without its header
actual_content_markdown(markdown_content) ==
    LET likes_line_start_index == Find(markdown_content, metadata_marker, 1)
        end_of_likes_line ==
            Find(markdown_content, << "\n" >>, likes_line_start_index + Len(metadata_marker))
    IN  IF likes_line_start_index # 0
        THEN IF end_of_likes_line # 0
             THEN Lstrip(SubSeq(markdown_content, end_of_likes_line + 1,
                                Len(markdown_content)))
             ELSE << >>
        ELSE markdown_content

\* markdown.markdown(text, ...): the rendering of a text
markdown_markdown(text) == [ rendered |-> text ]

\* open(md_filepath).read()
ReadFile(files, path) == (CHOOSE f \in files : f.path = path).content

\* lines 506-510: the record names a markdown file and the file exists
HasMarkdown(md, post) == post.file_link # << >> /\ Exists(md, post.file_link)

\* c.isalnum()
IsAlnum(char) ==
    \/ IsDigit(char)
    \/ \E i \in 1..Len(UpperLetters) : char \in { UpperLetters[i], LowerLetters[i] }

\* lines 552-554: the name of the chapter file of the record at position i
\* (from 0) of sorted_posts
chapter_filename(i, chapter_title) ==
    [ number |-> i + 1,
      name |-> [ k \in 1..Len(chapter_title) |->
                   IF IsAlnum(chapter_title[k]) THEN chapter_title[k] ELSE "_" ] ]

\* 'nav' in the spine
Nav == [ number |-> 0, name |-> << "n", "a", "v" >> ]

\* lines 505-595: the chapters and the table of contents, in the order of
\* sorted_posts; i is the position of the record in sorted_posts
ChaptersOf(sorted_posts, md) ==
    LET Chapter(e) ==
            [ file_name |-> chapter_filename(e.i - 1, e.post.title),
              title |-> e.post.title,
              body |-> CHOOSE html_content \in
                           { markdown_markdown(actual_content_markdown(markdown_content)) :
                               markdown_content \in { ReadFile(md, e.post.file_link) } } : TRUE,
              toc_title |-> TocTitle(e.post),
              file_link |-> e.post.file_link ]
        Chapters(kept) == [ k \in 1..Len(kept) |-> Chapter(kept[k]) ]
    IN  CHOOSE chapters \in
            { Chapters(kept) :
                kept \in { SelectSeq([ i \in 1..Len(sorted_posts) |->
                                         [ i |-> i, post |-> sorted_posts[i] ] ],
                                     LAMBDA e : HasMarkdown(md, e.post)) } } : TRUE

\* create_epub_from_author_markdown: the archive file it leaves
\* (valid_posts, sorted_posts and chapters are each computed once, as the
\* locals of the function are)
create_epub_from_author_markdown(json, md, epub) ==
    LET Book(chapters) ==
            [ exists |-> TRUE,
              chapters |-> chapters,
              toc |-> [ k \in 1..Len(chapters) |->
                           [ href |-> chapters[k].file_name,
                             title |-> chapters[k].toc_title ] ],
              spine |-> << Nav >> \o [ k \in 1..Len(chapters) |-> chapters[k].file_name ] ]
    IN  IF ~json.exists THEN epub                       \* lines 438-440
        ELSE IF json.data = << >> THEN epub             \* lines 445-447
        ELSE CHOOSE book \in
                 { Book(chapters) :
                     chapters \in
                         { ChaptersOf(sorted_posts, md) :
                             sorted_posts \in
                                 { SortPosts(valid_posts) :
                                     valid_posts \in
                                         { SelectSeq(json.data, IsValidPost) } } } } : TRUE

-----------------------------------------------------------------------------
(* Initial state: the process starts, the disk is empty                    *)

NoJson == [ exists |-> FALSE, data |-> << >> ]
NoEpub == [ exists |-> FALSE, chapters |-> << >>, toc |-> << >>, spine |-> << >> ]
NoSnapshot == [ md |-> {}, html |-> {}, json |-> NoJson, after_run |-> FALSE, cap |-> 0 ]
Caps == (0 - 1)..MaxCap

\* config.py as the repository has it defines no DELAY_LENGTH; a
\* configuration that does gives it a number of seconds
Configurations == { [ defined |-> FALSE, value |-> 0 ], [ defined |-> TRUE, value |-> 1 ] }

\* the sign-in page accepts the credentials, shows its error container, or
\* lacks an element login() looks for (find_element raises)
LoginOutcomes == { "ok", "error_container", "no_such_element" }

\* A faulty variant: login() does not look at the outcome of the sign-in
login_raises_Never(outcome) == FALSE

\* login() raises: lines 830-856
login_raises(outcome) == outcome # "ok"

\* the scraper object and the locals of scrape_posts, as the process starts
InitProcess ==
    /\ post_urls = << >>
    /\ feed_item_contents = << >>
    /\ sitemap_urls = << >>
    /\ combined_urls = << >>
    /\ queried = {}
    /\ num_posts_to_scrape = 0
    /\ idx = 1
    /\ essays_data = << >>
    /\ count = 0
    /\ processed_urls_count = 0
    /\ epub_calls = 0
    /\ has_run = FALSE
    /\ fetched = [ u \in AllUrls |-> 0 ]
    /\ visited = {}
    /\ failed = {}
    /\ unsaved_prev = {}
    /\ unsaved_urls = {}
    /\ pages_stable = TRUE
    /\ prev_cap = 0
    /\ snapshot = NoSnapshot
    /\ slept = [ u \in AllUrls |-> 0 ]
    /\ paused = FALSE

\* everything but the network and the configuration, as the process starts:
\* the disk is empty
InitRest ==
    /\ InitProcess
    /\ md_files = {}
    /\ html_files = {}
    /\ json_file = NoJson
    /\ browse_page = NoJson
    /\ epub_file = NoEpub
    /\ argument = << >>
    /\ returned = << >>

\* the publication lists at most MaxListed entries
Init ==
    /\ \E n \in 0..MaxListed :
          /\ sitemap_response \in SitemapResponses(Urls \cup {NoneLoc}, n)
          /\ feed_response \in
                FeedResponses(FeedItems(Urls, Snippets \cup {EmptyStr}), MaxListed - n)
    /\ premium \in BOOLEAN
    /\ login_outcome \in (IF premium THEN LoginOutcomes ELSE { "none" })
    /\ DELAY_LENGTH \in Configurations
    /\ pc = "start"
    /\ InitRest

\* every sitemap and feed within MaxSitemap and MaxFeed
InitResolve ==
    /\ sitemap_response \in SitemapResponses(AllUrls \cup {NoneLoc}, MaxSitemap)
    /\ feed_response \in FeedResponses(FeedItems(AllUrls, {SnipPaid, EmptyStr}), MaxFeed)
    /\ premium = FALSE
    /\ login_outcome = "none"
    /\ DELAY_LENGTH = [ defined |-> TRUE, value |-> 1 ]
    /\ pc = "new"
    /\ InitRest

\* the markdown files an author's directory may hold when the archive is
\* assembled, each written by combine_metadata_and_content
ArchivePaths == { PathJoin(md_save_dir, << n >> \o DotMd) : n \in { "p", "q", "r" } }
ArchiveFile(path) ==
    [ path |-> path,
      content |-> combine_metadata_and_content(
                      Post, << >>, << "2", "0", "2", "3", "-", "0", "1", "-", "0", "1" >>, Zero,
                      path \o Newlines \o metadata_marker \o << " ", "x", "\n" >>) ]

\* the records a dataset may hold: the date is what format_substack_date
\* returned, a canonical date, a sentinel, the empty string or an echoed string
ArchiveRecords ==
    { [ title |-> t, subtitle |-> << >>, like_count |-> Zero, date |-> d, file_link |-> f,
        html_link |-> html_save_dir ] :
      t \in { << "A" >>, << "B" >> },
      d \in { << "2", "0", "2", "3", "-", "0", "2", "-", "0", "1" >>,
              << "2", "0", "2", "3", "-", "1", "0", "-", "0", "1" >>,
              << >>, UnknownDate, DateNotFound, << "b", "a", "n", "a", "n", "a" >> },
      f \in ArchivePaths }

\* the datasets of at most MaxPosts records, one record per markdown file
ArchiveDatasets ==
    UNION { { data \in [ 1..Len(paths) -> ArchiveRecords ] :
                \A i \in 1..Len(paths) : data[i].file_link = paths[i] } :
            paths \in { l \in SeqsUpTo(ArchivePaths, MaxPosts) :
                          \A i, j \in 1..Len(l) : l[i] = l[j] => i = j } }

\* create_epub_from_author_markdown is about to be called on an author's
\* directory: a dataset or none, and some of the markdown files it names
InitEpub ==
    /\ sitemap_response = ConsumedSitemap
    /\ feed_response = ConsumedFeed
    /\ premium = FALSE
    /\ login_outcome = "none"
    /\ DELAY_LENGTH = [ defined |-> TRUE, value |-> 1 ]
    /\ pc = "epub"
    /\ InitProcess
    /\ \/ json_file = NoJson
       \/ \E data \in ArchiveDatasets : json_file = [ exists |-> TRUE, data |-> data ]
    /\ \E paths \in SUBSET ArchivePaths : md_files = { ArchiveFile(f) : f \in paths }
    /\ html_files = {}
    /\ browse_page = NoJson
    /\ epub_file = NoEpub
    /\ argument = << >>
    /\ returned = << >>

-----------------------------------------------------------------------------
(* The functions of the module called on their own: argument holds the     *)
(* arguments of the call, returned what the call gave                      *)

\* no scraper is at work and the disk is empty
InitIdle ==
    /\ sitemap_response = ConsumedSitemap
    /\ feed_response = ConsumedFeed
    /\ premium = FALSE
    /\ login_outcome = "none"
    /\ DELAY_LENGTH = [ defined |-> TRUE, value |-> 1 ]
    /\ InitProcess
    /\ md_files = {}
    /\ html_files = {}
    /\ json_file = NoJson
    /\ browse_page = NoJson
    /\ epub_file = NoEpub
    /\ returned = << >>

\* what a call of a function on its own leaves alone
program == << sitemap_response, feed_response, premium, post_urls, feed_item_contents,
              sitemap_urls, combined_urls, queried, md_files, html_files, json_file,
              browse_page, epub_file, num_posts_to_scrape, idx, essays_data, count,
              processed_urls_count, epub_calls, has_run, fetched, visited, failed,
              unsaved_prev, unsaved_urls, pages_stable, prev_cap, snapshot, slept,
              DELAY_LENGTH, login_outcome, paused >>

\* the pieces of a post: a title or subtitle may quote markdown, a body may
\* start with blank lines and may mention likes itself
Documents ==
    [ title : { << "T" >>, << "T", "\n", "U" >>, metadata_marker \o << " ", "?" >> },
      subtitle : { << >>, << "S" >>, << "o", "n", " " >> \o metadata_marker },
      date : { << "2", "0", "2", "3", "-", "0", "1", "-", "0", "1" >>, UnknownDate },
      like_count : { Zero, Twelve },
      content : { << >>, Body, << "\n", " " >> \o Body, Body \o << " " >>,
                  Body \o << "\n" >> \o metadata_marker \o << " ", "x", "\n" >> \o Body } ]

InitStrip ==
    /\ InitIdle
    /\ pc = "strip"
    /\ argument \in Documents

\* the document combine_metadata_and_content builds is written, read back
\* and stripped of its header (lines 512-547)
StripHeader ==
    /\ pc = "strip"
    /\ returned' = actual_content_markdown(
                       combine_metadata_and_content(argument.title, argument.subtitle,
                                                    argument.date, argument.like_count,
                                                    argument.content))
    /\ pc' = "stripped"
    /\ UNCHANGED << program, argument >>

SpecStrip == InitStrip /\ [][StripHeader]_vars

\* the plain texts of the snippets the classifier is tried on: no phrase, each
\* phrase in some letter case, and a phrase cut short
ClassifierSnippets ==
    LET texts == { HelloWorld, ForPaidSubscribers,
                     << "T", "H", "I", "S", " ", "P", "O", "S", "T", " ", "I", "S", " ", "F",
                        "O", "R", " ", "P", "A", "I", "D", " ", "S", "U",
                        "B", "S", "C", "R", "I", "B", "E", "R", "S" >>,
                     << "P", "r", "e", "v", "i", "e", "w", ".", " ", "T", "o", " ", "R", "e",
                        "a", "d", " ", "T", "h", "e", " ", "F", "u", "l",
                        "l", " ", "P", "o", "s", "t", ",", " ", "S", "u",
                        "b", "s", "c", "r", "i", "b", "e" >>,
                     << "T", "h", "i", "s", " ", "i", "s", " ", "a", " ", "p", "r", "e", "v",
                        "i", "e", "w", " ", "o", "f", " ", "a", " ", "p",
                        "a", "i", "d", " ", "p", "o", "s", "t", "." >>,
                     << "P", "l", "e", "a", "s", "e", " ", "U", "p", "g", "r", "a", "d", "e",
                        " ", "T", "o", " ", "P", "a", "i", "d" >>,
                     << "f", "o", "r", " ", "p", "a", "i", "d", " ", "s", "u", "b", "s", "c",
                        "r", "i", "b", "e", "r", "s" >> }
        \* a subscribe button, a button that leads elsewhere, a plain link
        anchors == {
              Anchor("button",
                     << "h", "t", "t", "p", "s", ":", "/", "/", "s", "/", "s", "u", "b", "s",
                        "c", "r", "i", "b", "e", "?", "u", "t", "m", "=",
                        "1" >>,
                     << "S", "u", "b", "s", "c", "r", "i", "b", "e", " ", "n", "o", "w" >>),
              Anchor("button",
                     << "h", "t", "t", "p", "s", ":", "/", "/", "s", "/", "s", "u", "b", "s",
                        "c", "r", "i", "b", "e", "?" >>,
                     << "R", "e", "a", "d", " ", "m", "o", "r", "e" >>),
              Anchor("button",
                     << "h", "t", "t", "p", "s", ":", "/", "/", "s", "/", "a", "b", "o", "u",
                        "t" >>,
                     << "S", "u", "b", "s", "c", "r", "i", "b", "e" >>),
              Anchor("link",
                     << "h", "t", "t", "p", "s", ":", "/", "/", "s", "/", "s", "u", "b", "s",
                        "c", "r", "i", "b", "e", "?", "u", "t", "m", "=",
                        "1" >>,
                     << "S", "u", "b", "s", "c", "r", "i", "b", "e", " ", "n", "o", "w" >>) }
        metas == {
              Meta("og:description", << "O", "n", "l", "y", " ", "f", "o", "r", " ", "s", "u", "b", "s", "c",
                      "r", "i", "b", "e", "r", "s" >>),
              Meta("og:description", << "A", " ", "P", "a", "i", "d", " ", "P", "o", "s", "t" >>),
              Meta("og:description", << "F", "r", "e", "e" >>),
              Meta("og:description", << >>),
              Meta("author", << "A", " ", "P", "a", "i", "d", " ", "P", "o", "s", "t" >>) }
    IN  { EmptyStr }
        \cup { << TextNode(t) >> : t \in texts }
        \cup { << TextNode(t), a >> : t \in texts, a \in anchors }
        \cup { << m, TextNode(t), a >> : m \in metas, t \in texts, a \in anchors }

InitClassify ==
    /\ InitIdle
    /\ pc = "classify"
    /\ \E snippet \in ClassifierSnippets, key \in { U_ax, U_bx } :
          argument \in { [ feed_item_contents |-> << [ key |-> key, value |-> snippet ] >>,
                           url |-> U_ax ],
                         [ feed_item_contents |-> << >>, url |-> U_ax ] }

\* is_article_premium_from_feed(url) is called on a scraper with these
\* feed_item_contents
Classify ==
    /\ pc = "classify"
    /\ returned' = is_article_premium_from_feed(argument.feed_item_contents, argument.url)
    /\ pc' = "classified"
    /\ UNCHANGED << program, argument >>

SpecClassify == InitClassify /\ [][Classify]_vars

\* the date texts format_substack_date is tried on: the sentinels, absolute
\* dates in the forms the function tries, relative dates, and strings that
\* are no date
DateInputs ==
    { DateNotFound, UnknownDate, Jan1,
      << "J", "u", "n", " ", "0", "9", ",", " ", "2", "0", "2", "5" >>,
      << "j", "a", "n", " ", "1", ",", " ", "2", "0", "2", "3" >>,
      << "F", "e", "b", " ", "3", "0", ",", " ", "2", "0", "2", "3" >>,
      << "J", "a", "n", " ", "1", " ", "2", "0", "2", "3" >>,
      << "M", "a", "r", " ", "2", "3" >>,
      << "F", "e", "b", " ", "2", "9" >>,
      << "2", "0", "2", "3", "-", "0", "1", "-", "0", "1" >>,
      << "2", "0", "2", "3", "-", "1", "-", "5" >>,
      << "2", "0", "2", "3", "-", "1", "3", "-", "0", "1" >>,
      << "1", " ", "d", "a", "y", " ", "a", "g", "o" >>,
      << "2", " ", "h", "r", " ", "a", "g", "o" >>,
      << "5", " ", "m", "i", "n", " ", "r", "e", "a", "d" >>,
      << "b", "a", "n", "a", "n", "a" >>,
      << " ", "b", "a", "n", "a", "n", "a", " " >>,
      << "b", "a", "n", "a", "n", "a", "\n" >>,
      << "3", " ", "d", "a", "y", "s" >>,
      << "t", "w", "o", " ", "h", "o", "u", "r", "s" >>,
      << "1", " ", "h", "o", "u", "r" >>,
      << "a", " ", "m", "i", "n", "u", "t", "e" >>,
      << "t", "h", "r", "e", "e" >>,
      << >> }

InitFormat ==
    /\ InitIdle
    /\ pc = "format"
    /\ argument \in [ date_str : DateInputs, now : Nows ]

\* format_substack_date(date_str) is called
FormatDate ==
    /\ pc = "format"
    /\ returned' = format_substack_date(argument.date_str, argument.now)
    /\ pc' = "formatted"
    /\ UNCHANGED << program, argument >>

SpecFormat == InitFormat /\ [][FormatDate]_vars

\* the pages extract_post_data is tried on: each element it selects is
\* absent or present, with text that has or lacks the expected form
NotANumber == << "N", "/", "A" >>
ExtractSoups ==
    [ paywall_title : { FALSE },
      title : { Absent, Post, << " " >> \o Post \o << "\n" >> },
      subtitle : { Absent, Sub },
      date_text : { Absent, Jan1, << "A", "n", "n" >> \o Dash \o Jan1,
                    << "b", "a", "n", "a", "n", "a" >> },
      likes_label : { Absent, Twelve, << " " >> \o Twelve \o << " " >>, NotANumber },
      content : { Absent, Body } ]

InitExtract ==
    /\ InitIdle
    /\ pc = "extract"
    /\ argument \in [ soup : ExtractSoups, now : Nows ]

\* extract_post_data(soup) is called
ExtractPostData ==
    /\ pc = "extract"
    /\ returned' = extract_post_data(argument.soup, argument.now)
    /\ pc' = "extracted"
    /\ UNCHANGED << program, argument >>

SpecExtract == InitExtract /\ [][ExtractPostData]_vars

\* python substack_scraper.py: the import of lines 22-25 binds DELAY_LENGTH
\* from config, or raises ImportError
ImportModule ==
    /\ pc = "start"
    /\ pc' = IF DELAY_LENGTH.defined THEN "new" ELSE "import_error"
    /\ UNCHANGED << sitemap_response, feed_response, premium, post_urls, feed_item_contents,
                    sitemap_urls, combined_urls, queried, md_files, html_files, json_file,
                    browse_page, epub_file, num_posts_to_scrape, idx, essays_data, count,
                    processed_urls_count, epub_calls, has_run, fetched, visited, failed,
                    unsaved_prev, unsaved_urls, pages_stable, prev_cap, snapshot, slept,
                    DELAY_LENGTH, login_outcome, paused, argument, returned >>

\* BaseSubstackScraper.__init__: self.post_urls = self._get_all_post_urls_and_feed_content()
Construct ==
    /\ pc = "new"
    /\ LET s == fetch_urls_from_sitemap(sitemap_response)
       IN  IF s.raised
           THEN /\ pc' = "raised"
                /\ queried' = { "sitemap" }
                /\ UNCHANGED << post_urls, feed_item_contents, sitemap_urls, combined_urls >>
           ELSE LET f == fetch_urls_and_content_from_feed(feed_response)
                IN  IF f.raised
                    THEN /\ pc' = "raised"
                         /\ queried' = { "sitemap", "feed" }
                         /\ sitemap_urls' = s.value
                         /\ UNCHANGED << post_urls, feed_item_contents, combined_urls >>
                    ELSE /\ queried' = { "sitemap", "feed" }
                         /\ sitemap_urls' = s.value
                         /\ feed_item_contents' = f.value
                         /\ combined_urls' = IF s.value # << >>
                                             THEN CombineUrls(s.value, f.value)
                                             ELSE << >>
                         /\ IF ResolveRaises(s.value, f.value)
                            THEN pc' = "raised" /\ UNCHANGED post_urls
                            ELSE /\ post_urls' = ResolveUrls(s.value, f.value)
                                 \* PremiumSubstackScraper.__init__ goes on to self.login()
                                 /\ pc' = IF premium /\ login_raises(login_outcome)
                                          THEN "login_failed" ELSE "constructed"
    /\ UNCHANGED << sitemap_response, feed_response, premium, md_files, html_files,
                    json_file, browse_page, epub_file, num_posts_to_scrape, idx, essays_data, count,
                    processed_urls_count, epub_calls, has_run, fetched, visited, failed,
                    unsaved_prev, unsaved_urls, pages_stable, prev_cap, snapshot, slept,
                    DELAY_LENGTH, login_outcome, paused, argument, returned >>

-----------------------------------------------------------------------------
(* scrape_posts                                                            *)

settings == << DELAY_LENGTH, login_outcome, argument, returned >>
network == << sitemap_response, feed_response >>
scraper == << premium, post_urls, feed_item_contents >>
resolution == << sitemap_urls, combined_urls, queried >>
disk == << md_files, html_files, json_file, browse_page, epub_file >>
observed == << has_run, unsaved_prev, prev_cap, snapshot >>

\* scrape_posts(num_posts_to_scrape) is called: lines 627-638
StartRun ==
    /\ pc \in { "constructed", "done" }
    /\ \E n \in Caps : num_posts_to_scrape' = n
    /\ pc' = "loop"
    /\ idx' = 1
    /\ essays_data' = << >>
    /\ count' = 0
    /\ processed_urls_count' = 0
    /\ epub_calls' = 0
    /\ fetched' = [ u \in AllUrls |-> 0 ]
    /\ visited' = {}
    /\ failed' = {}
    /\ snapshot' = [ md |-> md_files, html |-> html_files, json |-> json_file,
                     after_run |-> has_run, cap |-> prev_cap ]
    \* the responses have been read and the locals of the resolution are gone
    /\ sitemap_response' = ConsumedSitemap
    /\ feed_response' = ConsumedFeed
    /\ sitemap_urls' = << >>
    /\ combined_urls' = << >>
    /\ queried' = {}
    /\ unsaved_prev' = unsaved_urls
    /\ unsaved_urls' = {}
    /\ pages_stable' = TRUE
    /\ slept' = [ u \in AllUrls |-> 0 ]
    /\ UNCHANGED << settings, paused, scraper, disk, has_run, prev_cap >>

\* line 641: the check at the top of the loop body
LimitReachedAtTop ==
    num_posts_to_scrape # 0 /\ processed_urls_count >= num_posts_to_scrape

\* the for statement yields post_urls[idx] and the check of line 641 lets it in
BodyEntered == pc = "loop" /\ idx <= Len(post_urls) /\ ~LimitReachedAtTop

\* the for statement finds post_urls exhausted
LoopExhausted ==
    /\ pc = "loop"
    /\ idx > Len(post_urls)
    /\ pc' = "save"
    /\ UNCHANGED << paused, slept >>
    /\ UNCHANGED << settings, network, scraper, resolution, disk, observed, num_posts_to_scrape, idx,
                    essays_data, count, processed_urls_count, epub_calls, fetched, visited,
                    failed, unsaved_urls, pages_stable >>

\* lines 641-643: break at the top of the body
BreakAtTop ==
    /\ pc = "loop"
    /\ idx <= Len(post_urls)
    /\ LimitReachedAtTop
    /\ pc' = "save"
    /\ UNCHANGED << paused, slept >>
    /\ UNCHANGED << settings, network, scraper, resolution, disk, observed, num_posts_to_scrape, idx,
                    essays_data, count, processed_urls_count, epub_calls, fetched, visited,
                    failed, unsaved_urls, pages_stable >>

\* a continue statement: the next URL, without the check of line 696
Continue == pc' = "loop" /\ idx' = idx + 1

\* A faulty variant: the check at the end of the body compares with > for >=
EndOfBody_StrictlyMore(new_count) ==
    IF num_posts_to_scrape # 0 /\ new_count > num_posts_to_scrape
    THEN pc' = "save" /\ idx' = idx
    ELSE pc' = "loop" /\ idx' = idx + 1

\* A faulty variant: reaching the cap returns from scrape_posts for leaving the loop
EndOfBody_ReturnsAtCap(new_count) ==
    IF num_posts_to_scrape # 0 /\ new_count >= num_posts_to_scrape
    THEN pc' = "done" /\ idx' = idx
    ELSE pc' = "loop" /\ idx' = idx + 1

\* lines 695-698: the check at the end of the body, with the count it sees
EndOfBody(new_count) ==
    IF num_posts_to_scrape # 0 /\ new_count >= num_posts_to_scrape
    THEN pc' = "save" /\ idx' = idx
    ELSE pc' = "loop" /\ idx' = idx + 1

\* A faulty variant: the handler raises the exception again and the run is over
ExceptHandler_Reraise == pc' = "aborted" /\ idx' = idx

\* lines 692-693: except Exception prints and the body ends
ExceptHandler == EndOfBody(count)

\* A faulty variant: the check for an existing markdown file is missing
AlreadyScraped_Never(url) == FALSE

\* A faulty variant: the check looks for the HTML file of the URL
AlreadyScraped_HtmlExists(url) == Exists(html_files, html_filepath(url))

\* line 651: os.path.exists(md_filepath)
AlreadyScraped(url) == Exists(md_files, md_filepath(url))

\* lines 651, 690-691: the markdown file exists
SkipExisting ==
    /\ BodyEntered
    /\ ~paused
    /\ AlreadyScraped(post_urls[idx])
    /\ EndOfBody(count)
    /\ visited' = visited \cup { idx }
    /\ UNCHANGED << paused, slept >>
    /\ UNCHANGED << settings, network, scraper, resolution, disk, observed, num_posts_to_scrape,
                    essays_data, count, processed_urls_count, epub_calls, fetched, failed,
                    unsaved_urls, pages_stable >>

\* A faulty variant: the feed check before the pause is missing
should_skip_fetching_Never(url) == FALSE

\* lines 653-659
should_skip_fetching(url) ==
    ~premium /\ is_article_premium_from_feed(feed_item_contents, url)

\* lines 665-666: the body reaches sleep(DELAY_LENGTH)
PauseBeforeFetch ==
    /\ BodyEntered
    /\ ~paused
    /\ ~AlreadyScraped(post_urls[idx])
    /\ ~should_skip_fetching(post_urls[idx])
    /\ paused' = TRUE
    /\ slept' = [ slept EXCEPT ![post_urls[idx]] = @ + 1 ]
    /\ UNCHANGED << DELAY_LENGTH, login_outcome, argument, returned, network, scraper,
                    resolution, disk, observed, pc, num_posts_to_scrape, idx, essays_data,
                    count, processed_urls_count, epub_calls, fetched, visited, failed,
                    unsaved_urls, pages_stable >>

\* line 668: the body has slept and calls get_url_soup
Fetching == BodyEntered /\ paused

\* the transport is asked for the page: the fetch in get_url_soup
CountFetch(url) ==
    IF ~premium /\ is_article_premium_from_feed(feed_item_contents, url)
    THEN fetched
    ELSE [ fetched EXCEPT ![url] = @ + 1 ]

\* lines 654-659: premium by the feed check, unauthenticated scraper only
SkipPremium ==
    /\ BodyEntered
    /\ ~paused
    /\ ~AlreadyScraped(post_urls[idx])
    /\ should_skip_fetching(post_urls[idx])
    /\ Continue
    /\ visited' = visited \cup { idx }
    /\ UNCHANGED << paused, slept >>
    /\ UNCHANGED << settings, network, scraper, resolution, disk, observed, num_posts_to_scrape,
                    essays_data, count, processed_urls_count, epub_calls, fetched, failed,
                    unsaved_urls, pages_stable >>

\* lines 668-672: get_url_soup returns None
SoupIsNone ==
    /\ Fetching
    /\ \E page \in PagesFor(premium) :
          get_url_soup(premium, feed_item_contents, post_urls[idx], page).none
    /\ Continue
    /\ fetched' = CountFetch(post_urls[idx])
    /\ visited' = visited \cup { idx }
    /\ failed' = failed \cup { idx }
    /\ unsaved_urls' = unsaved_urls \cup { post_urls[idx] }
    /\ paused' = FALSE
    /\ UNCHANGED slept
    /\ UNCHANGED << settings, network, scraper, resolution, disk, observed, num_posts_to_scrape,
                    essays_data, count, processed_urls_count, epub_calls, pages_stable >>

\* line 668 raises (PremiumSubstackScraper.get_url_soup), or lines 674-675 raise:
\* an exception before the markdown file is written
RaisesBeforeWrite ==
    /\ Fetching
    /\ \E page \in PagesFor(premium) :
          \E got \in { get_url_soup(premium, feed_item_contents, post_urls[idx], page) } :
              \/ got.raised
              \/ ~got.none /\ ~got.raised    \* extract_post_data or save_to_file raises
    /\ ExceptHandler
    /\ fetched' = CountFetch(post_urls[idx])
    /\ visited' = visited \cup { idx }
    /\ failed' = failed \cup { idx }
    /\ unsaved_urls' = unsaved_urls \cup { post_urls[idx] }
    /\ paused' = FALSE
    /\ UNCHANGED slept
    /\ UNCHANGED << settings, network, scraper, resolution, disk, observed, num_posts_to_scrape,
                    essays_data, count, processed_urls_count, epub_calls, pages_stable >>

\* lines 675-679: the markdown file is written, then md_to_html or
\* save_to_html_file raises
RaisesAfterWrite ==
    /\ Fetching
    /\ \E page \in PagesFor(premium), now \in Nows :
          \E got \in { get_url_soup(premium, feed_item_contents, post_urls[idx], page) } :
              /\ ~got.none /\ ~got.raised
              /\ md_files' = save_to_file(md_files, md_filepath(post_urls[idx]),
                                          extract_post_data(got.soup, now).md)
    /\ ExceptHandler
    /\ fetched' = CountFetch(post_urls[idx])
    /\ visited' = visited \cup { idx }
    /\ failed' = failed \cup { idx }
    /\ pages_stable' = (pages_stable /\ post_urls[idx] \notin unsaved_prev)
    /\ paused' = FALSE
    /\ UNCHANGED slept
    /\ UNCHANGED << settings, network, scraper, resolution, html_files, json_file, browse_page,
                    epub_file, observed, num_posts_to_scrape, essays_data, count,
                    processed_urls_count, epub_calls, unsaved_urls >>

\* lines 668-689: the post is fetched, extracted, written and recorded
Persist ==
    /\ Fetching
    /\ \E page \in PagesFor(premium), now \in Nows :
          \E url \in { post_urls[idx] } :
          \E got \in { get_url_soup(premium, feed_item_contents, url, page) } :
              /\ ~got.none /\ ~got.raised
              /\ \E data \in { extract_post_data(got.soup, now) } :
                    /\ md_files' = save_to_file(md_files, md_filepath(url), data.md)
                    /\ html_files' = save_to_html_file(html_files, html_filepath(url), data.md)
                    /\ essays_data' = Append(essays_data, PostRecord(url, data))
    /\ count' = count + 1
    /\ EndOfBody(count + 1)
    /\ fetched' = CountFetch(post_urls[idx])
    /\ visited' = visited \cup { idx }
    /\ pages_stable' = (pages_stable /\ post_urls[idx] \notin unsaved_prev)
    /\ paused' = FALSE
    /\ UNCHANGED slept
    /\ UNCHANGED << settings, network, scraper, resolution, json_file, browse_page, epub_file,
                    observed, num_posts_to_scrape, processed_urls_count, epub_calls, failed,
                    unsaved_urls >>

\* line 700: save_essays_data_to_json(essays_data)
SaveEssaysData ==
    /\ pc = "save"
    /\ json_file' = [ exists |-> TRUE, data |-> MergedEssays(json_file, essays_data) ]
    /\ pc' = "page"
    /\ UNCHANGED << paused, slept >>
    /\ UNCHANGED << settings, network, scraper, resolution, md_files, html_files, browse_page,
                    epub_file, observed, num_posts_to_scrape, idx, essays_data, count,
                    processed_urls_count, epub_calls, fetched, visited, failed,
                    unsaved_urls, pages_stable >>

\* line 701: generate_html_file(author_name)
GenerateHtmlFile ==
    /\ pc = "page"
    /\ browse_page' = [ exists |-> TRUE, data |-> json_file.data ]
    /\ pc' = "epub"
    /\ UNCHANGED << paused, slept >>
    /\ UNCHANGED << settings, network, scraper, resolution, md_files, html_files, json_file,
                    epub_file, observed, num_posts_to_scrape, idx, essays_data, count,
                    processed_urls_count, epub_calls, fetched, visited, failed,
                    unsaved_urls, pages_stable >>

\* lines 707-714: create_epub_from_author_markdown is called, scrape_posts returns
CreateEpub ==
    /\ pc = "epub"
    /\ epub_calls' = epub_calls + 1
    /\ epub_file' = create_epub_from_author_markdown(json_file, md_files, epub_file)
    /\ has_run' = TRUE
    /\ prev_cap' = num_posts_to_scrape
    /\ pc' = "done"
    \* the locals of scrape_posts are gone
    /\ num_posts_to_scrape' = 0
    /\ idx' = 1
    /\ essays_data' = << >>
    /\ count' = 0
    /\ processed_urls_count' = 0
    /\ fetched' = [ u \in AllUrls |-> 0 ]
    /\ visited' = {}
    /\ failed' = {}
    /\ slept' = [ u \in AllUrls |-> 0 ]
    /\ UNCHANGED paused
    /\ UNCHANGED << settings, network, scraper, resolution, md_files, html_files, json_file,
                    browse_page, snapshot, unsaved_prev, unsaved_urls, pages_stable >>

Next ==
    \/ ImportModule
    \/ Construct
    \/ StartRun
    \/ LoopExhausted
    \/ BreakAtTop
    \/ SkipExisting
    \/ SkipPremium
    \/ PauseBeforeFetch
    \/ SoupIsNone
    \/ RaisesBeforeWrite
    \/ RaisesAfterWrite
    \/ Persist
    \/ SaveEssaysData
    \/ GenerateHtmlFile
    \/ CreateEpub

Spec == Init /\ [][Next]_vars

\* the archive assembler alone, on every dataset within MaxPosts
SpecEpub == InitEpub /\ [][CreateEpub]_vars

\* a step of scrape_posts, from the first URL to its return
ScrapeStep ==
    \/ LoopExhausted
    \/ BreakAtTop
    \/ SkipExisting
    \/ SkipPremium
    \/ PauseBeforeFetch
    \/ SoupIsNone
    \/ RaisesBeforeWrite
    \/ RaisesAfterWrite
    \/ Persist
    \/ SaveEssaysData
    \/ GenerateHtmlFile
    \/ CreateEpub

\* a call of scrape_posts keeps running: the interpreter takes its next
\* statement, every request and every sleep returns
SpecLive == Spec /\ WF_vars(ScrapeStep)

\* resolution alone, over the wider range of sitemaps and feeds
SpecResolve == InitResolve /\ [][Construct]_vars

-----------------------------------------------------------------------------
(* Properties of repeated runs and of the dataset                          *)

\* a list without two equal elements
NoRecordTwice(data) == \A i, j \in 1..Len(data) : data[i] = data[j] => i = j

\* the markdown files and the dataset are those the run found when it started
SameMarkdownAndDataset == md_files = snapshot.md /\ json_file = snapshot.json

\* a run has returned that followed another run over the same URL list, and
\* every URL the earlier run left without a file was left without one again
SecondRunDone == pc = "done" /\ snapshot.after_run /\ pages_stable

\* C1, as stated: a second run with the same cap, over the same URL list and
\* the same pages, leaves the markdown files and the dataset of the first run.
C1_SecondRunSameCap ==
    (SecondRunDone /\ snapshot.cap = prev_cap) => SameMarkdownAndDataset

\* C1, amended: after a run without a cap (cap 0), a second run over the same
\* URL list and the same pages creates no markdown file and adds no entry to
\* the dataset, and no record is in the dataset twice.
C1_SecondRunAfterUncapped ==
    (SecondRunDone /\ snapshot.cap = 0)
        => SameMarkdownAndDataset /\ NoRecordTwice(json_file.data)

\* a second run has returned after an uncapped one that saved a post and
\* left another URL without a file
C1_Witness ==
    /\ SecondRunDone
    /\ snapshot.cap = 0
    /\ snapshot.json.data # << >>
    /\ unsaved_prev # {}
    /\ SameMarkdownAndDataset

\* C2: the dataset a run found when it started is a prefix of the dataset at
\* every later moment of that run and after it: records are only appended,
\* none is removed, rewritten or moved.
C2_DatasetAppendOnly ==
    /\ IsPrefix(snapshot.json.data, json_file.data)
    /\ snapshot.json.exists => json_file.exists

\* a run has appended a record to a dataset that had records
C2_Witness ==
    /\ pc = "done"
    /\ snapshot.json.data # << >>
    /\ Len(json_file.data) > Len(snapshot.json.data)

\* C3: the dataset, and the records a run is about to merge into it, never
\* hold two records with the same markdown file path.
C3_OneRecordPerFile ==
    LET all == json_file.data \o SelectSeq(essays_data, LAMBDA r : ~ListIn(r, json_file.data))
    IN  \A i, j \in 1..Len(all) : all[i].file_link = all[j].file_link => i = j

\* a URL was visited whose markdown file has a record in the dataset from an
\* earlier run, and the loop is over
C3_Witness ==
    /\ pc = "save"
    /\ \E i \in visited : \E k \in 1..Len(snapshot.json.data) :
          snapshot.json.data[k].file_link = md_filepath(post_urls[i])
    /\ essays_data # << >>

\* C4, as stated: within one run the page of a URL is requested at most once.
C4_AtMostOneFetchPerUrl == \A u \in AllUrls : fetched[u] <= 1

-----------------------------------------------------------------------------
(* Properties of the loop of scrape_posts                                  *)

\* the cap has been reached (lines 641 and 696)
CapReached == num_posts_to_scrape # 0 /\ count >= num_posts_to_scrape

\* every position of post_urls has been visited
AllVisited == visited = 1..Len(post_urls)

\* the loop is over and scrape_posts has not returned
AfterLoop == pc \in { "save", "page", "epub" }

\* C5: when the processing of a URL has failed, the run is in its loop, or
\* every URL after the failed one has been visited, or the cap is reached: a
\* failure does not end the run.
C5_FailureDoesNotAbort ==
    \A i \in failed :
        \/ pc = "loop" /\ idx > i
        \/ AfterLoop /\ \A j \in (i + 1)..Len(post_urls) : j \in visited
        \/ AfterLoop /\ CapReached

\* the processing of a URL failed and a later URL was visited
C5_Witness ==
    /\ AfterLoop
    /\ \E i \in failed : \E j \in visited : j > i

C7_CapSemantics ==
    /\ pc \in { "loop", "save", "page", "epub" } => count = Len(essays_data)
    /\ num_posts_to_scrape > 0 =>
          /\ count <= num_posts_to_scrape
          /\ pc = "loop" => count < num_posts_to_scrape
          /\ (AfterLoop /\ ~AllVisited) => count = num_posts_to_scrape
    /\ (AfterLoop /\ num_posts_to_scrape = 0) => AllVisited

\* the cap ended a loop that had URLs left
C7_Witness ==
    /\ pc = "save"
    /\ num_posts_to_scrape > 0
    /\ count = num_posts_to_scrape
    /\ ~AllVisited

-----------------------------------------------------------------------------
(* Properties of URL resolution                                            *)

\* the URL contains "about", "archive" or "podcast"
HasKeyword(url) ==
    \/ StrIn(<< "a", "b", "o", "u", "t" >>, url)
    \/ StrIn(<< "a", "r", "c", "h", "i", "v", "e" >>, url)
    \/ StrIn(<< "p", "o", "d", "c", "a", "s", "t" >>, url)

\* the URLs of a list that contain no keyword, in the order of the list
RECURSIVE WithoutKeywordUrls(_)
WithoutKeywordUrls(urls) ==
    IF urls = << >> THEN << >>
    ELSE (IF HasKeyword(Head(urls)) THEN << >> ELSE << Head(urls) >>)
         \o WithoutKeywordUrls(Tail(urls))

\* the elements of a list, each once, in the order of their first occurrence
RECURSIVE FirstOccurrences(_)
FirstOccurrences(list) ==
    IF list = << >> THEN << >>
    ELSE LET front == FirstOccurrences(SubSeq(list, 1, Len(list) - 1))
             last == list[Len(list)]
         IN  IF ListIn(last, front) THEN front ELSE Append(front, last)

\* S: the URLs the sitemap lists, none when the request or the parse fails
SitemapListed ==
    IF sitemap_response.kind = "ok" THEN sitemap_response.locs ELSE << >>

\* F: the URLs the feed lists, none when the request or the parse fails
FeedListed ==
    IF feed_response.kind = "ok"
    THEN FirstOccurrences(SelectSeq([ i \in 1..Len(feed_response.items) |->
                                        feed_response.items[i].link ],
                                    LAMBDA link : link # EmptyStr))
    ELSE << >>

\* C8: when the sitemap lists a non-empty S, the list before the keyword
\* filter is S in its order, then the URLs of the feed that are not in S, in
\* the order of the feed; the resolved list is that list without the URLs
\* that contain a keyword.
C8_SitemapFirstThenNovelFeed ==
    (pc = "constructed" /\ SitemapListed # << >>) =>
        /\ combined_urls = SitemapListed
                           \o SelectSeq(FeedListed, LAMBDA u : ~ListIn(u, SitemapListed))
        /\ post_urls = WithoutKeywordUrls(combined_urls)

\* sitemap [A, B] and feed [B, C] have resolved to [A, B, C]
C8_Witness ==
    /\ pc = "constructed"
    /\ SitemapListed = << U_ax, U_bx >>
    /\ FeedListed = << U_bx, U_ay >>
    /\ combined_urls = << U_ax, U_bx, U_ay >>

\* C9: once the resolution has been attempted both sources have been asked,
\* and no exception has left it unless the sitemap was read and lists a <loc>
\* without text: none does because a source could not be fetched or parsed.
\* When the sitemap gives nothing the resolved list is the feed's URLs without
\* those that contain a keyword, which is the empty list when the feed gives
\* nothing too; when the feed gives nothing it is the sitemap's URLs so
\* filtered.
C9_ResolutionNeverRaises ==
    pc # "new" =>
        /\ queried = { "sitemap", "feed" }
        /\ pc = "raised" => ListIn(NoneLoc, SitemapListed)
        /\ pc = "constructed" =>
              /\ SitemapListed = << >> => post_urls = WithoutKeywordUrls(FeedListed)
              /\ FeedListed = << >> => post_urls = WithoutKeywordUrls(SitemapListed)
              /\ (SitemapListed = << >> /\ FeedListed = << >>) => post_urls = << >>

\* the sitemap could not be parsed and the feed's URLs were resolved
C9_Witness ==
    /\ pc = "constructed"
    /\ sitemap_response.kind = "parse_error"
    /\ feed_response.kind = "ok"
    /\ post_urls # << >>
    /\ Len(post_urls) < Len(FeedListed)

\* C10: no URL of the resolved list contains a keyword, whichever path
\* resolved it; every URL a source lists that contains none is in the resolved
\* list; and no URL that contains a keyword is requested in a run.
C10_KeywordUrlsNeverResolvedNorFetched ==
    /\ \A i \in 1..Len(post_urls) : ~HasKeyword(post_urls[i])
    /\ pc = "constructed" =>
          \A u \in Range(SitemapListed) \cup Range(FeedListed) :
              ~HasKeyword(u) => ListIn(u, post_urls)
    /\ \A u \in AllUrls : fetched[u] > 0 => ~HasKeyword(u)

\* the feed listed a URL with a keyword, and the run has been through the
\* resolved list and has requested a page
C10_Witness ==
    /\ pc = "loop"
    /\ idx > Len(post_urls)
    /\ \E u \in DOMAIN fetched : fetched[u] > 0
    /\ \E i \in 1..Len(feed_item_contents) : HasKeyword(feed_item_contents[i].key)

-----------------------------------------------------------------------------
(* Properties of the premium skip, the pause and the login                 *)

\* the feed snippet of the URL classifies it as premium
PremiumByFeed(url) == is_article_premium_from_feed(feed_item_contents, url)

\* the path is the file of a URL of the resolved list that the feed does not
\* classify as premium
FileOfFreeUrl(path_of(_), path) ==
    \E i \in 1..Len(post_urls) : ~PremiumByFeed(post_urls[i]) /\ path_of(post_urls[i]) = path

\* C11: with the unauthenticated scraper a URL the feed classifies as premium
\* is never slept for nor requested, and every markdown file, HTML file and
\* record the run produces is that of a URL the feed does not classify as
\* premium; with the authenticated scraper every visited URL the feed
\* classifies as premium was slept for, unless its markdown file exists.
C11_PremiumByFeedSkippedEntirely ==
    /\ ~premium =>
          /\ \A u \in AllUrls : PremiumByFeed(u) => slept[u] = 0 /\ fetched[u] = 0
          /\ \A f \in md_files \ snapshot.md : FileOfFreeUrl(md_filepath, f.path)
          /\ \A f \in html_files \ snapshot.html : FileOfFreeUrl(html_filepath, f.path)
          /\ \A k \in 1..Len(essays_data) :
                FileOfFreeUrl(md_filepath, essays_data[k].file_link)
    /\ premium =>
          \A i \in visited :
              PremiumByFeed(post_urls[i]) =>
                  slept[post_urls[i]] >= 1 \/ AlreadyScraped(post_urls[i])

\* the unauthenticated scraper has been through a list with a URL the feed
\* classifies as premium, and has persisted another URL
C11_Witness ==
    /\ ~premium
    /\ pc = "save"
    /\ essays_data # << >>
    /\ \E i \in visited : PremiumByFeed(post_urls[i]) /\ ~AlreadyScraped(post_urls[i])

\* the pause of the iteration in progress, for which get_url_soup is yet to
\* be called
PendingPause(u) == IF paused /\ idx <= Len(post_urls) /\ post_urls[idx] = u THEN 1 ELSE 0

\* every request of a page comes after one sleep(DELAY_LENGTH) of the same
\* iteration, every such sleep is followed by the request, and a URL that is
\* skipped is not slept for
PausePairsWithFetch ==
    /\ \A u \in AllUrls : slept[u] = fetched[u] + PendingPause(u)
    /\ paused => pc = "loop" /\ ~AlreadyScraped(post_urls[idx])
                 /\ ~should_skip_fetching(post_urls[idx])

C17_LoginFailureStopsBeforeAnyUrl ==
    (premium /\ login_outcome # "ok") =>
        /\ pc \in { "start", "import_error", "new", "raised", "login_failed" }
        /\ visited = {}
        /\ \A u \in AllUrls : slept[u] = 0 /\ fetched[u] = 0
        /\ md_files = {} /\ html_files = {}
        /\ ~json_file.exists /\ ~browse_page.exists /\ ~epub_file.exists

\* the sign-in page showed its error container for a publication that has
\* posts to scrape
C17_Witness ==
    /\ pc = "login_failed"
    /\ login_outcome = "error_container"
    /\ post_urls # << >>

-----------------------------------------------------------------------------
(* Properties of the archive assembler                                     *)

\* the calendar day of a date written yyyy-mm-dd, as a number; 0 for any
\* other string
DayNumber(date) ==
    IF /\ Len(date) = 10
       /\ \A i \in { 1, 2, 3, 4, 6, 7, 9, 10 } : IsDigit(date[i])
       /\ date[5] = "-" /\ date[8] = "-"
    THEN 10000 * ParseInt(SubSeq(date, 1, 4)) + 100 * ParseInt(SubSeq(date, 6, 7))
         + ParseInt(SubSeq(date, 9, 10))
    ELSE 0
IsCalendarDate(date) == DayNumber(date) # 0

\* alphabetical order of the titles of ArchiveRecords
TitleNotAfter(a, b) == a = << "A" >> \/ b = << "B" >>

\* the position in the dataset of the record a chapter was made from
RecordPosition(chapter) ==
    CHOOSE i \in 1..Len(json_file.data) : json_file.data[i].file_link = chapter.file_link
RecordOfChapter(chapter) == json_file.data[RecordPosition(chapter)]

Assembled == pc = "done" /\ json_file.exists

\* the chapters i < j are in (date, title) order, equal keys in dataset order
InOrder(first, second) ==
    LET a == RecordOfChapter(first)
        b == RecordOfChapter(second)
    IN  \/ DayNumber(a.date) < DayNumber(b.date)
        \/ /\ a.date = b.date
           /\ TitleNotAfter(a.title, b.title)
           /\ a.title = b.title => RecordPosition(first) < RecordPosition(second)

\* C13: after the assembly every chapter comes from a record with a calendar
\* date, the chapters are in ascending (date, title) order of their records,
\* and the spine (after the navigation page) and the table of contents list
\* the chapters in that same order.
C13_ChaptersInDateTitleOrder ==
    Assembled =>
        LET chapters == epub_file.chapters
        IN  /\ \A k \in 1..Len(chapters) : IsCalendarDate(RecordOfChapter(chapters[k]).date)
            /\ \A i, j \in 1..Len(chapters) : i < j => InOrder(chapters[i], chapters[j])
            /\ Len(epub_file.toc) = Len(chapters)
            /\ \A k \in 1..Len(chapters) : epub_file.toc[k].href = chapters[k].file_name
            /\ epub_file.exists =>
                  epub_file.spine = << Nav >> \o [ k \in 1..Len(chapters) |-> chapters[k].file_name ]

\* three chapters, the dataset held them in another order, and two of them
\* have the same date
C13_Witness ==
    /\ Assembled
    /\ Len(epub_file.chapters) = 3
    /\ RecordPosition(epub_file.chapters[1]) > RecordPosition(epub_file.chapters[3])
    /\ \E i, j \in 1..3 :
          /\ i < j
          /\ RecordOfChapter(epub_file.chapters[i]).date = RecordOfChapter(epub_file.chapters[j]).date
          /\ RecordOfChapter(epub_file.chapters[i]).title # RecordOfChapter(epub_file.chapters[j]).title
          /\ RecordPosition(epub_file.chapters[i]) > RecordPosition(epub_file.chapters[j])

HasChapter(record) ==
    \E k \in 1..Len(epub_file.chapters) : epub_file.chapters[k].file_link = record.file_link

\* C14: after the assembly a record of the dataset has a chapter exactly when
\* its date is a calendar date and its markdown file exists.
C14_ChapterIffDatedAndFilePresent ==
    Assembled =>
        \A i \in 1..Len(json_file.data) :
            HasChapter(json_file.data[i]) <=>
                /\ IsCalendarDate(json_file.data[i].date)
                /\ Exists(md_files, json_file.data[i].file_link)

\* a record with an echoed date and a record whose file is gone are skipped,
\* and a record after them in the sorted order has its chapter
C14_Witness ==
    /\ Assembled
    /\ Len(json_file.data) = 3
    /\ ~IsCalendarDate(json_file.data[1].date) /\ json_file.data[1].date \notin { << >>, UnknownDate, DateNotFound }
    /\ Exists(md_files, json_file.data[1].file_link)
    /\ IsCalendarDate(json_file.data[2].date) /\ ~Exists(md_files, json_file.data[2].file_link)
    /\ IsCalendarDate(json_file.data[3].date) /\ HasChapter(json_file.data[3])
    /\ Len(epub_file.chapters) = 1

NoValidRecord == \A i \in 1..Len(json_file.data) : ~IsCalendarDate(json_file.data[i].date)

\* C15: after the assembly of a dataset without a record of a calendar date
\* there is an archive file, and it has no chapter.
C15_ArchiveWrittenWithoutValidRecords ==
    (Assembled /\ NoValidRecord) => (epub_file.exists /\ epub_file.chapters = << >>)

\* the part of C15 the function keeps: a dataset that has records, none of
\* them with a calendar date, gives an archive without chapters
C15_NonEmptyDatasetWritesArchive ==
    (Assembled /\ NoValidRecord /\ json_file.data # << >>) =>
        (epub_file.exists /\ epub_file.chapters = << >>)

\* result is body without some of its leading whitespace
IsBodyUpToLeadingWhitespace(result, body) ==
    \E k \in 0..Len(body) :
        /\ result = SubSeq(body, k + 1, Len(body))
        /\ \A i \in 1..k : body[i] \in { " ", "\n" }

\* C16: the header strip, applied to the document built from any title,
\* subtitle, date, like count and body, returns the body up to its leading
\* whitespace.
C16_StripReturnsBody ==
    pc = "stripped" => IsBodyUpToLeadingWhitespace(returned, argument.content)

\* the same, for the posts whose title and subtitle do not contain the marker
C16_StripReturnsBodyUnlessHeaderHasMarker ==
    (/\ pc = "stripped"
     /\ ~StrIn(metadata_marker, argument.title)
     /\ ~StrIn(metadata_marker, argument.subtitle))
    => IsBodyUpToLeadingWhitespace(returned, argument.content)

-----------------------------------------------------------------------------
(* Properties of the functions called on their own                         *)

\* two characters are the same letter, whatever their case
SameLetter(a, b) ==
    \/ a = b
    \/ \E i \in 1..Len(UpperLetters) :
          { a, b } = { UpperLetters[i], LowerLetters[i] }

\* phrase occurs in text, in any letter case
OccursIgnoringCase(phrase, text) ==
    \E i \in 0..(Len(text) - Len(phrase)) :
        \A j \in 1..Len(phrase) : SameLetter(text[i + j], phrase[j])

\* the snippet of the call, the empty string when the URL has none
SnippetOfCall ==
    IF \E i \in 1..Len(argument.feed_item_contents) :
          argument.feed_item_contents[i].key = argument.url
    THEN argument.feed_item_contents[1].value
    ELSE << >>

HasPaywallPhrase ==
    \E phrase \in paid_subscriber_texts :
        OccursIgnoringCase(phrase, get_text(SnippetOfCall))

HasSubscribeAnchor ==
    \E i \in 1..Len(SnippetOfCall) :
        /\ SnippetOfCall[i].tag = "a"
        /\ SnippetOfCall[i].class = "button"
        /\ StrIn(SubscribeQuery, SnippetOfCall[i].href)

\* C18: the classifier answers true when the plain text of the URL's snippet
\* contains a paywall phrase in any letter case, and false when the URL has
\* no snippet, the snippet is empty, or it has neither a paywall phrase nor a
\* subscribe anchor.
C18_PhraseIsPremiumNoSignalIsFree ==
    pc = "classified" =>
        /\ HasPaywallPhrase => returned = TRUE
        /\ (SnippetOfCall = << >> \/ (~HasPaywallPhrase /\ ~HasSubscribeAnchor))
              => returned = FALSE

\* a phrase in capitals was classified as premium
C18_Witness ==
    /\ pc = "classified"
    /\ HasPaywallPhrase
    /\ \A phrase \in paid_subscriber_texts : ~StrIn(phrase, get_text(SnippetOfCall))
    /\ returned = TRUE

\* the forms of a date text the function recognises, as the text has them
IsSentinel(date_str) == date_str = DateNotFound
IsMonthDayYear(date_str) ==
    strptime_b_d_Y(Strip(date_str)).ok \/ ManualMonthDayYear(Strip(date_str)).ok
HasRecencyMarker(date_str) == \E marker \in RecencyMarkers : StrIn(marker, date_str)
IsMonthDay(date_str) ==
    \E year \in { now.year : now \in Nows } :
        strptime_b_d_Y(Strip(date_str) \o << ",", " " >> \o FourDigits(year)).ok
IsYearMonthDay(date_str) == strptime_Y_m_d(Strip(date_str)).ok

NoDateForm(date_str) ==
    /\ ~IsSentinel(date_str)
    /\ ~IsMonthDayYear(date_str)
    /\ ~HasRecencyMarker(date_str)
    /\ ~IsMonthDay(date_str)
    /\ ~IsYearMonthDay(date_str)

\* C19: a date text that is not the sentinel, has none of the date forms and
\* no recency marker is returned as it was given.
C19_UnparseableReturnedUnchanged ==
    (pc = "formatted" /\ NoDateForm(argument.date_str)) => returned = argument.date_str

\* what the function does return for such a text: the text stripped and
\* with its units shortened, or today's date when shortening a unit put a
\* recency marker into it
C19_UnparseableReturnedNormalised ==
    (pc = "formatted" /\ NoDateForm(argument.date_str)) =>
        \/ returned = NormaliseUnits(Strip(argument.date_str))
        \/ /\ HasRecencyMarker(NormaliseUnits(Strip(argument.date_str)))
           /\ returned = strftime_Y_m_d(argument.now)

\* the markdown document ends with the placeholder paragraph
EndsWithPlaceholder(md) ==
    /\ Len(md) >= Len(ContentNotFound) + 2
    /\ SubSeq(md, Len(md) - Len(ContentNotFound) - 1, Len(md))
          = ContentNotFound \o << "\n", "\n" >>

\* C20: whatever the other elements are, a missing title gives "Title not
\* found", a missing subtitle the empty string, a missing date element
\* "Unknown Date", a like counter that is missing or not all digits "0" and
\* one that is all digits its digits, and a missing content container the
\* placeholder body.
C20_DefaultsPerField ==
    pc = "extracted" =>
        LET soup == argument.soup
        IN  /\ soup.title = Absent => returned.title = TitleNotFound
            /\ soup.subtitle = Absent => returned.subtitle = << >>
            /\ soup.date_text = Absent => returned.date = UnknownDate
            /\ soup.likes_label = Absent => returned.like_count = << "0" >>
            /\ soup.likes_label = NotANumber => returned.like_count = << "0" >>
            /\ soup.likes_label = << "1", "2" >> => returned.like_count = << "1", "2" >>
            /\ soup.content = Absent => EndsWithPlaceholder(returned.md)

\* a page without title and date elements and with a like counter that is
\* no number, but with a subtitle and a content container, has been extracted
C20_Witness ==
    /\ pc = "extracted"
    /\ argument.soup.title = Absent
    /\ argument.soup.date_text = Absent
    /\ argument.soup.likes_label = NotANumber
    /\ argument.soup.subtitle # Absent
    /\ argument.soup.content # Absent
    /\ returned.title = TitleNotFound
    /\ returned.like_count = << "0" >>
    /\ returned.subtitle = Sub

-----------------------------------------------------------------------------
(* Properties of the files of a run                                        *)

\* the paths of the markdown files this run created
CreatedMarkdown == { f.path : f \in md_files } \ { f.path : f \in snapshot.md }

\* the dataset has a record with this file_link
HasRecord(path) == \E k \in 1..Len(json_file.data) : json_file.data[k].file_link = path

\* an iteration of this run for this file ended in the except handler
FailedFor(path) == \E i \in failed : md_filepath(post_urls[i]) = path

\* C21: when a run has returned, every markdown file it created has a record
\* with that file_link in the dataset, whatever the successes and failures
\* of its iterations were.
C21_CreatedFileHasRecord ==
    pc = "done" => \A path \in CreatedMarkdown : HasRecord(path)

\* the part of C21 the loop keeps, seen when the dataset is written and the
\* locals of the run are still there: a created file has a record unless an
\* iteration for it ended in the except handler
C21_CreatedFileHasRecordUnlessFailed ==
    pc = "epub" => \A path \in CreatedMarkdown : FailedFor(path) \/ HasRecord(path)

\* the dataset of a run is written; the run created a file in an iteration
\* that failed and another in an iteration that did not
C21_Witness ==
    /\ pc = "epub"
    /\ \E path \in CreatedMarkdown : FailedFor(path) /\ ~HasRecord(path)
    /\ \E path \in CreatedMarkdown : ~FailedFor(path) /\ HasRecord(path)

\* the dataset of a run is written, and the run was without a cap, started
\* with no markdown file, no HTML file and no dataset, skipped no URL as
\* premium and had no iteration that ended without a markdown file or in the
\* except handler
CleanUncappedRun ==
    /\ pc = "epub"
    /\ num_posts_to_scrape = 0
    /\ snapshot.md = {} /\ snapshot.html = {} /\ ~snapshot.json.exists
    /\ failed = {} /\ unsaved_urls = {}
    /\ \A i \in 1..Len(post_urls) : ~should_skip_fetching(post_urls[i])

\* the records of the dataset with this file_link
RecordsOf(path) == { k \in 1..Len(json_file.data) : json_file.data[k].file_link = path }

\* C22: after such a run every distinct URL of post_urls has a markdown file
\* and a record of its own: the dataset has as many records as there are
\* distinct URLs, and two distinct URLs never share a file.
C22_OneRecordPerDistinctUrl ==
    CleanUncappedRun =>
        /\ Len(json_file.data) = Cardinality(Range(post_urls))
        /\ \A u \in Range(post_urls) : Cardinality(RecordsOf(md_filepath(u))) = 1
        /\ \A u, v \in Range(post_urls) : u # v => md_filepath(u) # md_filepath(v)

\* the part of C22 the loop keeps: one markdown file and one record for each
\* distinct last path segment of the URLs
C22_OneRecordPerDistinctFilename ==
    CleanUncappedRun =>
        /\ Len(json_file.data) = Cardinality({ md_filepath(u) : u \in Range(post_urls) })
        /\ \A u \in Range(post_urls) :
              /\ Exists(md_files, md_filepath(u))
              /\ Cardinality(RecordsOf(md_filepath(u))) = 1

\* such a run over two distinct URLs with the same last path segment, and
\* such a run over two URLs with different ones
C22_Witness ==
    /\ CleanUncappedRun
    /\ Len(post_urls) = 2
    /\ post_urls[1] # post_urls[2]
    /\ md_filepath(post_urls[1]) = md_filepath(post_urls[2])
    /\ Len(json_file.data) = 1

C22_WitnessDistinctFilenames ==
    /\ CleanUncappedRun
    /\ Len(post_urls) = 2
    /\ md_filepath(post_urls[1]) # md_filepath(post_urls[2])
    /\ Len(json_file.data) = 2

\* every markdown and HTML file the run found is there with its content
FilesOfSnapshotKept == snapshot.md \subseteq md_files /\ snapshot.html \subseteq html_files

\* an iteration that has passed the check of line 651, and so goes on to
\* save_to_file and save_to_html_file, finds neither file of its URL
WritesOnlyNewFiles ==
    Fetching => /\ ~Exists(md_files, md_filepath(post_urls[idx]))
                /\ ~Exists(html_files, html_filepath(post_urls[idx]))

\* the loop is at a URL whose markdown file exists
AtExistingMarkdown == BodyEntered /\ Exists(md_files, md_filepath(post_urls[idx]))

\* a step leaves the files, the collected records, the sleeps and the
\* fetches as they are
StepWithoutEffect ==
    /\ md_files' = md_files
    /\ html_files' = html_files
    /\ essays_data' = essays_data
    /\ slept' = slept
    /\ paused' = paused
    /\ fetched' = fetched

====
